---------------------------- MODULE Spec2Model ----------------------------
(***************************************************************************)
(* The build session engine of the GoCD golang agent.                      *)
(*                                                                         *)
(*   - the session interpreter  src/agent/build_session.go                 *)
(*   - the dispatcher           src/unnamed/part_001                       *)
(*                                                                         *)
(* A session is a record; its interpreter is a stack machine whose frames  *)
(* are the activations of BuildSession.process.  Every step that reads or  *)
(* writes something another task can see (the cancel channel, the done     *)
(* channel, the outbound channel, the console, the subprocess) is an       *)
(* action of its own, so every interleaving the Go scheduler allows is a   *)
(* behaviour of the model.                                                 *)
(*                                                                         *)
(* Strings that the code formats are kept as tuples of their parts: an     *)
(* error is the tuple of the parts of its message (the nil error is <<>>), *)
(* a console line is the tuple of the parts of the line, a path is the     *)
(* tuple of its components.                                                *)
(***************************************************************************)
EXTENDS Naturals, Sequences, FiniteSets, TLC

\* ------------------------------------------------------------------------
\* Bounds of the model
\* ------------------------------------------------------------------------

\* inbound websocket messages delivered to the dispatcher in one run
MaxMsgs ==
    2

\* times StartAgent re-enters doStartAgent after it returned
MaxRestarts ==
    1

\* ------------------------------------------------------------------------
\* Values
\* ------------------------------------------------------------------------

\* the nil error
NoErr ==
    <<>>

\* cmd.Args[key]: a Go map read, the zero value "" for a missing key
Get(args, key) ==
    IF key \in DOMAIN args THEN args[key] ELSE ""

\* strconv.Itoa on the indices the model uses
Itoa(i) ==
    CASE i = 0 -> "0"
      [] i = 1 -> "1"
      [] i = 2 -> "2"
      [] OTHER -> "3"

\* BuildCommand.ExtractArgList(n): the list args["0"] .. args["n-1"]
ExtractArgList(args, n) ==
    [i \in 1..n |-> Get(args, Itoa(i - 1))]

\* number of entries of a Go map
MapLen(args) ==
    Cardinality(DOMAIN args)

\* ------------------------------------------------------------------------
\* The command tree (protocal.BuildCommand) and the jobs the server sends
\* ------------------------------------------------------------------------

BuildCommand(name, args) ==
    [name |-> name, args |-> args, workingDirectory |-> <<>>,
     runIfConfig |-> "passed", test |-> <<>>, subCommands |-> <<>>]

RunIf(cmd, cfg) ==
    [cmd EXCEPT !.runIfConfig = cfg]

SetTest(cmd, guard, expectation) ==
    [cmd EXCEPT !.test = <<[command |-> guard, expectation |-> expectation]>>]

Setwd(cmd, wd) ==
    [cmd EXCEPT !.workingDirectory = wd]

ComposeCommand(subs) ==
    [BuildCommand("compose", <<>>) EXCEPT !.subCommands = subs]

StartCommand(consoleURI) ==
    BuildCommand("start",
        [k \in {"buildLocator", "buildLocatorForDisplay", "consoleURI",
                "artifactUploadBaseUrl", "propertyBaseUrl", "buildId"} |->
            CASE k = "consoleURI" -> consoleURI
              [] k = "buildId" -> "b1"
              [] k = "buildLocator" -> "p/1/s/1/j"
              [] k = "buildLocatorForDisplay" -> "p/1/s/1/j"
              [] OTHER -> "/files"])

EchoCommand(line) ==
    BuildCommand("echo", "0" :> line)

ExecCommand(prog, arg) ==
    BuildCommand("exec", ("command" :> prog) @@ ("0" :> arg))

TestCommand(flag, path) ==
    BuildCommand("test", ("flag" :> flag) @@ ("path" :> path))

ExportCommand(args) ==
    BuildCommand("export", args)

UploadArtifactCommand(src, dest) ==
    BuildCommand("uploadArtifact", ("src" :> src) @@ ("dest" :> dest))

ReportCommand(name, jobState) ==
    BuildCommand(name, "jobState" :> jobState)

\* the pipeline directory of the jobs (relative to the agent's directory)
PipelineDir ==
    <<"pipelines", "p">>

\* exec that is cancelled or exits, a cleanup child that runs on failure,
\* and a final status report
JobExec ==
    ComposeCommand(<<
        StartCommand("/console"),
        RunIf(ReportCommand("reportCurrentStatus", "Building"), "any"),
        ExecCommand("sleep", "60"),
        RunIf(EchoCommand("cleanup"), "failed"),
        RunIf(ReportCommand("reportCompleted", "Completed"), "any")>>)

\* a failing test, a second start followed by a report and by another
\* failing test, children of every runIfConfig
JobFail ==
    ComposeCommand(<<
        StartCommand("/console"),
        TestCommand("-x", <<"tmp">>),
        EchoCommand("skipped"),
        RunIf(EchoCommand("on failure"), "failed"),
        RunIf(StartCommand("/console"), "any"),
        RunIf(ReportCommand("reportCompleting", "Completing"), "any"),
        TestCommand("-d", <<"nodir">>),
        RunIf(BuildCommand("end", <<>>), "any")>>)

\* guards, a nested compose whose failing child is not its last, exports,
\* an unknown command
JobGuard ==
    ComposeCommand(<<
        StartCommand("/console"),
        ExportCommand(("B" :> "2") @@ ("A1" :> "2") @@ ("A" :> "1")),
        SetTest(EchoCommand("guarded"), ExecCommand("false", "x"), FALSE),
        SetTest(EchoCommand("no dir"), TestCommand("-d", <<"nodir">>), TRUE),
        SetTest(EchoCommand("in compose"),
                ComposeCommand(<<TestCommand("-d", <<"nodir">>),
                                 RunIf(ExportCommand(<<>>), "any")>>),
                TRUE),
        SetTest(EchoCommand("late"), TestCommand("-d", <<"nodir">>), TRUE),
        RunIf(BuildCommand("fetchArtifact", <<>>), "failed"),
        RunIf(ReportCommand("reportCompleting", "Completing"), "failed")>>)

\* uploads: a file, a missing file (TestUploadArtifactFailed), a wildcard
JobUpload ==
    ComposeCommand(<<
        StartCommand("/console"),
        TestCommand("-d", <<"pipelines", "p", "src">>),
        Setwd(UploadArtifactCommand(<<"src", "hello", "4.txt">>, <<"dest", "subdir">>),
              PipelineDir),
        Setwd(UploadArtifactCommand(<<"src", "hello", "*.txt">>, <<"dest">>),
              PipelineDir),
        Setwd(UploadArtifactCommand(<<"src", "hello", "3.txt">>, <<>>), PipelineDir),
        Setwd(UploadArtifactCommand(<<"nofile">>, <<>>), PipelineDir),
        RunIf(ReportCommand("reportCompleted", "Completed"), "any")>>)

\* a start whose console URL does not parse
JobBadStart ==
    ComposeCommand(<<
        StartCommand("%zz"),
        RunIf(EchoCommand("x"), "any")>>)

\* a command tree with no start
JobNoStart ==
    BuildCommand("end", <<>>)

\* the command trees a cmd message can carry
Jobs ==
    {JobExec, JobFail, JobGuard, JobUpload, JobBadStart, JobNoStart}

\* ------------------------------------------------------------------------
\* The host the agent runs on: the file system and the programs of exec
\* ------------------------------------------------------------------------

\* the agent's current directory
Cwd ==
    <<"/", "agent">>

\* filepath.Abs
Abs(path) ==
    IF path # <<>> /\ path[1] = "/" THEN path ELSE Cwd \o path

\* the directories and files that exist
Disk ==
    {Cwd \o PipelineDir \o p : p \in
        {<<>>, <<"src">>, <<"src", "hello">>,
         <<"src", "hello", "3.txt">>, <<"src", "hello", "4.txt">>}}

\* os.Stat: the nil error, or the error naming the path as it was given
Stat(path) ==
    IF Abs(path) \in Disk
    THEN NoErr
    ELSE <<"stat">> \o path \o <<"no such file or directory">>

\* filepath.Match on one path component
MatchComponent(pattern, name) ==
    CASE pattern \in {"*", "**"} -> TRUE
      [] pattern = "*.txt" -> name \in {"3.txt", "4.txt"}
      [] OTHER -> pattern = name

\* strings.Contains(source, "*")
HasWildcard(path) ==
    \E i \in 1..Len(path) : path[i] \in {"*", "**", "*.txt"}

\* the lexical order of the names on the disk
NameRank(name) ==
    CASE name = "3.txt" -> 1
      [] name = "4.txt" -> 2
      [] OTHER -> 0

\* filepath.Glob: the matching paths, in lexical order
Glob(pattern) ==
    LET hits == {f \in Disk : /\ Len(f) = Len(pattern)
                              /\ \A i \in 1..Len(f) : MatchComponent(pattern[i], f[i])}
        Sorted[S \in SUBSET hits] ==
            IF S = {} THEN <<>>
            ELSE LET m == CHOOSE x \in S :
                            \A y \in S : NameRank(x[Len(x)]) <= NameRank(y[Len(y)])
                 IN <<m>> \o Sorted[S \ {m}]
    IN Sorted[hits]

\* the exit status of a program: 0 or not
ExitError(prog) ==
    IF prog = "false" THEN <<"exit status 1">> ELSE NoErr

\* whether a program writes to its stdout
WritesOutput(prog) ==
    prog = "sleep"

\* url.Parse(config.MakeFullServerURL(uri)): an invalid escape is the error
ParseURL(uri) ==
    IF uri = "%zz" THEN <<"parse", uri, "invalid URL escape">> ELSE NoErr

\* ------------------------------------------------------------------------
\* State
\* ------------------------------------------------------------------------

VARIABLES
    sessions,       \* every BuildSession made so far, with its tasks
    buildSession,   \* the dispatcher's session reference: an index, 0 is nil
    disp,           \* where the dispatcher task (StartAgent) is
    state,          \* the process-wide store of SetState
    wire,           \* the reports conn.Send has put on the websocket
    received,       \* inbound messages taken from conn.Received
    restarts,       \* times doStartAgent was re-entered
    crashed         \* a panic has ended the agent process

vars ==
    <<sessions, buildSession, disp, state, wire, received, restarts, crashed>>

\* MakeBuildConsole has not run: s.console is nil
NilConsole ==
    [bound |-> FALSE, closed |-> 0, lines |-> <<>>, late |-> FALSE]

\* the value process returns to its caller, with the activation it came from
NoRet ==
    [set |-> FALSE, err |-> NoErr, from |-> <<>>]

\* MakeBuildSession, and the goroutine of processBuildCommandMessage that is
\* started for it
MakeBuildSession(job) ==
    [job |-> job,
     cancel |-> FALSE,          \* the cancel channel is closed
     done |-> 0,                \* times the done channel was closed
     buildStatus |-> "",
     console |-> NilConsole,
     buildId |-> "",
     envs |-> <<>>,
     envsMade |-> FALSE,        \* s.envs is a map, not nil
     uploads |-> <<>>,          \* the calls of s.artifacts.Upload
     lost |-> <<>>,             \* consoles a later start has replaced
     starts |-> 0,              \* times processStart ran to its end
     stack |-> <<>>,            \* the activations of process
     ret |-> NoRet,
     task |-> "spawned",        \* where processBuildCommandMessage is
     kids |-> <<>>,             \* the child-wait tasks of exec
     panicked |-> FALSE]

Init ==
    /\ sessions = <<>>
    /\ buildSession = 0
    /\ disp = [pc |-> "loop", after |-> "", job |-> <<>>]
    /\ state = [runtimeStatus |-> "Idle", cookie |-> "",
                buildLocator |-> "", buildLocatorForDisplay |-> ""]
    /\ wire = <<>>
    /\ received = 0
    /\ restarts = 0
    /\ crashed = FALSE

\* ------------------------------------------------------------------------
\* The console and fail
\* ------------------------------------------------------------------------

\* a nil pointer dereference, an index out of range: the goroutine panics
Panic(s) ==
    [s EXCEPT !.panicked = TRUE]

\* BuildConsole.WriteLn, and BuildConsole.Write for the bytes of a subprocess
WriteLn(s, line) ==
    IF s.panicked THEN s
    ELSE IF ~s.console.bound THEN Panic(s)
    ELSE [s EXCEPT !.console.lines = Append(@, line),
                   !.console.late = @ \/ s.console.closed > 0]

\* BuildConsole.Close
ConsoleClose(s) ==
    IF s.panicked THEN s
    ELSE IF ~s.console.bound THEN Panic(s)
    ELSE [s EXCEPT !.console.closed = @ + 1]

\* BuildSession.fail
fail(s, err) ==
    IF s.panicked THEN s
    ELSE IF s.buildStatus # "failed"
    THEN LET w == WriteLn(s, err)
         IN IF w.panicked THEN w ELSE [w EXCEPT !.buildStatus = "failed"]
    ELSE s

\* the deferred function of Process when a panic unwinds through it:
\* s.console.Close() and then close(s.done); with a nil console the first
\* statement panics again and the second is never reached
Unwind(s) ==
    IF s.panicked /\ s.console.bound /\ s.task = "process"
    THEN [s EXCEPT !.console.closed = @ + 1, !.done = @ + 1]
    ELSE s

\* a step of the session task or of one of its child-wait tasks
SessionStep(i, s) ==
    /\ sessions' = [sessions EXCEPT ![i] = Unwind(s)]
    /\ crashed' = s.panicked

\* ------------------------------------------------------------------------
\* The activations of process
\* ------------------------------------------------------------------------

\* an activation of process(cmd), at its first statement
Frame(cmd) ==
    [cmd |-> cmd, pc |-> "check", i |-> 0, err |-> NoErr,
     lastFail |-> NoErr, msg |-> <<>>]

Top(s) ==
    s.stack[Len(s.stack)]

SetTop(s, f) ==
    [s EXCEPT !.stack[Len(s.stack)] = f]

\* a call s.process(cmd) from the activation on top
Call(s, cmd) ==
    [s EXCEPT !.stack = Append(@, Frame(cmd))]

\* return err from the activation on top
Return(s, err) ==
    IF s.panicked THEN s
    ELSE [s EXCEPT !.stack = SubSeq(@, 1, Len(@) - 1),
                   !.ret = [set |-> TRUE, err |-> err, from |-> <<Top(s)>>]]

\* the session task is inside Process and its top activation is at pc
At(i, pc) ==
    /\ ~crashed
    /\ i \in 1..Len(sessions)
    /\ sessions[i].task = "process"
    /\ sessions[i].stack # <<>>
    /\ Top(sessions[i]).pc = pc

\* everything a session step leaves alone
SessionFrame ==
    UNCHANGED <<buildSession, disp, wire, received, restarts>>

\* BuildSession.isCanceled
isCanceled(s) ==
    s.cancel

\* a skip that knows only the case of a failed build
SkipByRunIf_OnlyWhenFailed(s, cmd) ==
    /\ s.buildStatus = "failed"
    /\ cmd.runIfConfig = "passed"

\* the conditional skip of process
SkipByRunIf(s, cmd) ==
    /\ s.buildStatus # ""
    /\ cmd.runIfConfig # "any"
    /\ cmd.runIfConfig # s.buildStatus

\* process, from its first statement to the call of the guard or to the
\* switch
processCheck(i) ==
    /\ At(i, "check")
    /\ sessions[i].ret.set = FALSE
    /\ LET s == sessions[i]
           cmd == Top(s).cmd
       IN SessionStep(i,
            IF isCanceled(s) THEN Return(s, NoErr)
            ELSE IF SkipByRunIf(s, cmd) THEN Return(s, NoErr)
            ELSE IF cmd.test # <<>>
            THEN Call(SetTop(s, [Top(s) EXCEPT !.pc = "guard"]), cmd.test[1].command)
            ELSE SetTop(s, [Top(s) EXCEPT !.pc = "dispatch"]))
    /\ UNCHANGED state
    /\ SessionFrame

\* a guard that is satisfied whenever its command succeeds
GuardSatisfied_BySuccess(err, expectation) ==
    err = NoErr

\* whether the guard's result lets the body run
GuardSatisfied(err, expectation) ==
    (err = NoErr) = expectation

\* process, when the guard's process has returned
processGuard(i) ==
    /\ At(i, "guard")
    /\ sessions[i].ret.set
    /\ LET s == [sessions[i] EXCEPT !.ret = NoRet]
           cmd == Top(s).cmd
       IN SessionStep(i,
            IF GuardSatisfied(sessions[i].ret.err, cmd.test[1].expectation)
            THEN SetTop(s, [Top(s) EXCEPT !.pc = "dispatch"])
            ELSE Return(s, NoErr))
    /\ UNCHANGED state
    /\ SessionFrame

\* the switch of process has reached the case of one of names
Dispatch(i, names) ==
    /\ At(i, "dispatch")
    /\ Top(sessions[i]).cmd.name \in names

\* BuildSession.processStart
processStart(i) ==
    /\ Dispatch(i, {"start"})
    /\ LET s == sessions[i]
           settings == Top(s).cmd.args
           err == ParseURL(Get(settings, "consoleURI"))
       IN /\ state' = [state EXCEPT
                  !.buildLocator = Get(settings, "buildLocator"),
                  !.buildLocatorForDisplay = Get(settings, "buildLocatorForDisplay")]
          /\ SessionStep(i,
                IF err # NoErr THEN Return(s, err)
                ELSE Return([s EXCEPT
                        !.lost = IF s.console.bound THEN Append(@, s.console) ELSE @,
                        !.console = [NilConsole EXCEPT !.bound = TRUE],
                        !.buildId = Get(settings, "buildId"),
                        !.envs = <<>>,
                        !.envsMade = TRUE,
                        !.buildStatus = "passed",
                        !.starts = @ + 1], NoErr))
    /\ SessionFrame

\* the error processCompose returns after a child returned err
ComposeErr(prev, err) ==
    err

\* BuildSession.processCompose: the loop is entered
processCompose(i) ==
    /\ Dispatch(i, {"compose"})
    /\ LET s == sessions[i]
           subs == Top(s).cmd.subCommands
       IN SessionStep(i,
            IF subs = <<>> THEN Return(s, NoErr)
            ELSE Call(SetTop(s, [Top(s) EXCEPT !.pc = "compose", !.i = 1]), subs[1]))
    /\ UNCHANGED state
    /\ SessionFrame

\* a loop that ends at the first child that returns an error
ComposeGoesOn_UntilError(subs, n, err) ==
    n < Len(subs) /\ err = NoErr

\* whether the loop of processCompose goes on after child n of subs
ComposeGoesOn(subs, n, err) ==
    n < Len(subs)

\* BuildSession.processCompose: a child's process has returned
processComposeNext(i) ==
    /\ At(i, "compose")
    /\ sessions[i].ret.set
    /\ LET err == sessions[i].ret.err
           s0 == [sessions[i] EXCEPT !.ret = NoRet]
           f0 == Top(s0)
           subs == f0.cmd.subCommands
           f == [f0 EXCEPT !.err = ComposeErr(f0.err, err),
                           !.lastFail = IF err # NoErr THEN err ELSE @]
           s == IF err # NoErr THEN fail(SetTop(s0, f), err) ELSE SetTop(s0, f)
       IN SessionStep(i,
            IF s.panicked THEN s
            ELSE IF ComposeGoesOn(subs, f.i, err)
            THEN Call(SetTop(s, [f EXCEPT !.i = @ + 1]), subs[f.i + 1])
            ELSE Return(s, f.err))
    /\ UNCHANGED state
    /\ SessionFrame

\* ------------------------------------------------------------------------
\* export, test, echo, uploadArtifact, the reports, end, the default case
\* ------------------------------------------------------------------------

\* the characters of the keys and values of the jobs' exports
Chars(str) ==
    CASE str = "A" -> <<65>>
      [] str = "A1" -> <<65, 49>>
      [] str = "B" -> <<66>>
      [] str = "1" -> <<49>>
      [] str = "2" -> <<50>>
      [] OTHER -> <<>>

\* fmt.Sprintf("export %v=%v", key, value), after its constant prefix
ExportChars(key, value) ==
    Chars(key) \o <<61>> \o Chars(value)

\* a < b for Go strings: the order of their bytes
RECURSIVE StringLess(_, _)
StringLess(a, b) ==
    IF b = <<>> THEN FALSE
    ELSE IF a = <<>> THEN TRUE
    ELSE IF a[1] # b[1] THEN a[1] < b[1]
    ELSE StringLess(Tail(a), Tail(b))

\* sort.Strings on the export lines of envs
RECURSIVE SortedExports(_, _)
SortedExports(envs, keys) ==
    IF keys = {} THEN <<>>
    ELSE LET k == CHOOSE x \in keys : \A y \in keys \ {x} :
                    StringLess(ExportChars(x, envs[x]), ExportChars(y, envs[y]))
         IN <<(<<"export", k, envs[k]>>)>> \o SortedExports(envs, keys \ {k})

\* WriteLn of every line of a list, in order
RECURSIVE WriteLines(_, _)
WriteLines(s, lines) ==
    IF lines = <<>> THEN s
    ELSE WriteLines(WriteLn(s, Head(lines)), Tail(lines))

\* the overlay of args on envs
Overlay(envs, args) ==
    [k \in DOMAIN envs \cup DOMAIN args |->
        IF k \in DOMAIN args THEN args[k] ELSE envs[k]]

\* BuildSession.processExport
processExport(i) ==
    /\ Dispatch(i, {"export"})
    /\ LET s == sessions[i]
           args == Top(s).cmd.args
       IN SessionStep(i,
            IF MapLen(args) > 0
            THEN IF s.envsMade
                 THEN Return([s EXCEPT !.envs = Overlay(s.envs, args)], NoErr)
                 ELSE Panic(s)      \* assignment to an entry of a nil map
            ELSE Return(WriteLines(s, SortedExports(s.envs, DOMAIN s.envs)), NoErr))
    /\ UNCHANGED state
    /\ SessionFrame

\* BuildSession.processTest
processTest(i) ==
    /\ Dispatch(i, {"test"})
    /\ LET s == sessions[i]
           args == Top(s).cmd.args
       IN SessionStep(i,
            IF Get(args, "flag") = "-d"
            THEN Return(s, Stat(Get(args, "path")))
            ELSE Return(s, <<"unknown test flag">>))
    /\ UNCHANGED state
    /\ SessionFrame

\* BuildSession.processEcho
processEcho(i) ==
    /\ Dispatch(i, {"echo"})
    /\ LET s == sessions[i]
           args == Top(s).cmd.args
           lines == ExtractArgList(args, MapLen(args))
       IN SessionStep(i,
            Return(WriteLines(s, [n \in 1..Len(lines) |-> <<lines[n]>>]), NoErr))
    /\ UNCHANGED state
    /\ SessionFrame

\* a description that has no name for the default root
destDescription_Plain(path) ==
    path

\* destDescription
destDescription(path) ==
    IF path = <<>> THEN <<"[defaultRoot]">> ELSE path

\* BaseDirOfPathWithWildcard: the directory above the last directory that
\* comes before the first wildcard
BaseDirOfPathWithWildcard(path) ==
    LET first == CHOOSE n \in 1..Len(path) :
                    /\ HasWildcard(<<path[n]>>)
                    /\ \A m \in 1..(n - 1) : ~HasWildcard(<<path[m]>>)
    IN SubSeq(path, 1, first - 2)

\* Uploader.Upload: the error of the transfer
UploadError(source) ==
    NoErr

\* BuildSession.uploadArtifacts on source, then on the rest of the matches
\* of a wildcard (files): the session and the error returned
RECURSIVE uploadArtifacts(_, _, _, _, _)
uploadArtifacts(s, source, destDir, files, base) ==
    LET one ==
            IF HasWildcard(source)
            THEN uploadArtifacts(s, <<>>, destDir, Glob(source),
                                 BaseDirOfPathWithWildcard(source))
            ELSE IF Stat(source) # NoErr
            THEN [s |-> s, err |-> Stat(source)]
            ELSE LET name == source[Len(source)]
                     destPath == IF destDir # <<>> THEN destDir \o <<name>> ELSE <<name>>
                     s1 == WriteLn(s, <<"Uploading artifacts from">> \o source
                                      \o <<"to">> \o destDescription(destDir))
                 IN [s |-> [s1 EXCEPT !.uploads = Append(@,
                                [source |-> source, destPath |-> destPath,
                                 destDir |-> destDir, buildId |-> s.buildId])],
                     err |-> UploadError(source)]
    IN IF source # <<>> THEN one
       ELSE IF files = <<>> THEN [s |-> s, err |-> NoErr]
       ELSE LET file == Head(files)
                fileDir == SubSeq(file, 1, Len(file) - 1)
                dest == destDir \o SubSeq(fileDir, Len(base) + 1, Len(fileDir))
                r == uploadArtifacts(s, file, dest, <<>>, <<>>)
            IN IF r.err # NoErr \/ r.s.panicked THEN r
               ELSE uploadArtifacts(r.s, <<>>, destDir, Tail(files), base)

\* BuildSession.processUploadArtifact
processUploadArtifact(i) ==
    /\ Dispatch(i, {"uploadArtifact"})
    /\ LET s == sessions[i]
           cmd == Top(s).cmd
           absSrc == Abs(cmd.workingDirectory) \o Get(cmd.args, "src")
           r == uploadArtifacts(s, absSrc, Get(cmd.args, "dest"), <<>>, <<>>)
       IN SessionStep(i, Return(r.s, r.err))
    /\ UNCHANGED state
    /\ SessionFrame

\* capitalize
capitalize(str) ==
    CASE str = "passed" -> "Passed"
      [] str = "failed" -> "Failed"
      [] OTHER -> str

\* BuildSession.statusReport, in the message protocal.ReportMessage makes
statusReport(s, name, jobState) ==
    [action |-> name, buildId |-> s.buildId, jobState |-> jobState,
     result |-> capitalize(s.buildStatus)]

\* the names of the report commands
ReportNames ==
    {"reportCurrentStatus", "reportCompleting", "reportCompleted"}

\* process, case of the reports: the message is built (capitalize indexes
\* the first character of buildStatus) and the task blocks in the send
processReport(i) ==
    /\ Dispatch(i, ReportNames)
    /\ LET s == sessions[i]
           cmd == Top(s).cmd
       IN SessionStep(i,
            IF s.buildStatus = "" THEN Panic(s)
            ELSE SetTop(s, [Top(s) EXCEPT
                    !.pc = "send",
                    !.msg = <<statusReport(s, cmd.name, Get(cmd.args, "jobState"))>>]))
    /\ UNCHANGED state
    /\ SessionFrame

\* process, case "end"
processEnd(i) ==
    /\ Dispatch(i, {"end"})
    /\ SessionStep(i, Return(sessions[i], NoErr))
    /\ UNCHANGED state
    /\ SessionFrame

\* the names the switch of process has a case for
KnownNames ==
    {"start", "compose", "export", "test", "exec", "echo", "uploadArtifact", "end"}
        \cup ReportNames

\* process, default case
processDefault(i) ==
    /\ At(i, "dispatch")
    /\ Top(sessions[i]).cmd.name \notin KnownNames
    /\ LET s == sessions[i]
       IN SessionStep(i, Return(WriteLn(s, <<"TBI command:", Top(s).cmd.name>>), NoErr))
    /\ UNCHANGED state
    /\ SessionFrame

\* ------------------------------------------------------------------------
\* exec and its child-wait task
\* ------------------------------------------------------------------------

\* the goroutine of processExec that runs execCmd.Run(): not yet scheduled
ChildWait(s, args) ==
    [st |-> "spawned",
     prog |-> Get(args, "command"),
     out |-> IF WritesOutput(Get(args, "command")) THEN 1 ELSE 0,
     con |-> s.starts]      \* execCmd.Stdout: the console s.console held

\* the error of the cancel branch of processExec
CanceledError(args) ==
    <<Get(args, "command"), Get(args, "0"), "is canceled">>

\* BuildSession.processExec, to the select
processExec(i) ==
    /\ Dispatch(i, {"exec"})
    /\ LET s == sessions[i]
       IN SessionStep(i,
            SetTop([s EXCEPT !.kids = Append(@, ChildWait(s, Top(s).cmd.args))],
                   [Top(s) EXCEPT !.pc = "select"]))
    /\ UNCHANGED state
    /\ SessionFrame

\* BuildSession.processExec, case <-s.cancel of the select
processExecCancel(i) ==
    /\ At(i, "select")
    /\ sessions[i].cancel
    /\ LET s == sessions[i]
           k == Len(s.kids)
           args == Top(s).cmd.args
       IN SessionStep(i,
            CASE s.kids[k].st = "spawned" ->
                    \* execCmd.Process is nil: Kill dereferences it
                    Panic(s)
              [] s.kids[k].st = "running" ->
                    Return([s EXCEPT !.kids[k].st = "killed"], CanceledError(args))
              [] OTHER ->
                    \* the process has been waited for: Kill returns an error
                    Return(WriteLn(s, <<"kill command", Get(args, "command"), "failed">>),
                           CanceledError(args)))
    /\ UNCHANGED state
    /\ SessionFrame

\* BuildSession.processExec, case err := <-done of the select
processExecDone(i) ==
    /\ At(i, "select")
    /\ LET s == sessions[i]
           k == Len(s.kids)
       IN /\ s.kids[k].st = "exited"
          /\ SessionStep(i,
                Return([s EXCEPT !.kids[k].st = "finished"], ExitError(s.kids[k].prog)))
    /\ UNCHANGED state
    /\ SessionFrame

\* child-wait task k of session i is in state st
Kid(i, k, st) ==
    /\ ~crashed
    /\ i \in 1..Len(sessions)
    /\ k \in 1..Len(sessions[i].kids)
    /\ sessions[i].kids[k].st = st

\* execCmd.Run: the process is started
childStart(i, k) ==
    /\ Kid(i, k, "spawned")
    /\ sessions' = [sessions EXCEPT ![i].kids[k].st = "running"]
    /\ UNCHANGED <<state, crashed>>
    /\ SessionFrame

\* the copying goroutine of execCmd writes the subprocess's output to the
\* console execCmd.Stdout holds
childOutput(i, k) ==
    /\ \/ Kid(i, k, "running")
       \/ Kid(i, k, "killed")
    /\ sessions[i].kids[k].out > 0
    /\ LET s == [sessions[i] EXCEPT !.kids[k].out = @ - 1]
           con == s.kids[k].con
           line == <<s.kids[k].prog, "output">>
       IN IF con = 0
          THEN /\ crashed' = TRUE       \* Write on a nil console
               /\ sessions' = sessions
          ELSE /\ crashed' = FALSE
               /\ sessions' = [sessions EXCEPT ![i] =
                    IF con = s.starts THEN WriteLn(s, line)
                    ELSE [s EXCEPT !.lost[con].lines = Append(@, line)]]
    /\ UNCHANGED state
    /\ SessionFrame

\* execCmd.Run returns: the process has exited by itself and was waited for
childExit(i, k) ==
    /\ Kid(i, k, "running")
    /\ sessions' = [sessions EXCEPT ![i].kids[k].st = "exited"]
    /\ UNCHANGED <<state, crashed>>
    /\ SessionFrame

\* execCmd.Run returns after Kill: the task blocks in done <- err, which
\* nothing receives any more
childReap(i, k) ==
    /\ Kid(i, k, "killed")
    /\ sessions' = [sessions EXCEPT ![i].kids[k].st = "reaped"]
    /\ UNCHANGED <<state, crashed>>
    /\ SessionFrame

\* ------------------------------------------------------------------------
\* Process and processBuildCommandMessage
\* ------------------------------------------------------------------------

\* the session task is at pc of processBuildCommandMessage / Process
Task(i, pc) ==
    /\ ~crashed
    /\ i \in 1..Len(sessions)
    /\ sessions[i].task = pc

\* processBuildCommandMessage, to the first statement of Process
processBuildCommandMessage(i) ==
    /\ Task(i, "spawned")
    /\ state' = [state EXCEPT !.runtimeStatus = "Building"]
    /\ sessions' = [sessions EXCEPT ![i].task = "process",
                                    ![i].stack = <<Frame(sessions[i].job)>>]
    /\ UNCHANGED crashed
    /\ SessionFrame

\* Process: s.process(cmd) has returned; fail if it returned an error
Process(i) ==
    /\ Task(i, "process")
    /\ sessions[i].stack = <<>>
    /\ sessions[i].ret.set
    /\ LET s == [sessions[i] EXCEPT !.task = "deferred"]
       IN SessionStep(i, IF s.ret.err # NoErr THEN fail(s, s.ret.err) ELSE s)
    /\ UNCHANGED state
    /\ SessionFrame

\* the deferred function of Process: s.console.Close()
ProcessDeferredClose(i) ==
    /\ Task(i, "deferred")
    /\ SessionStep(i, ConsoleClose([sessions[i] EXCEPT !.task = "closeDone"]))
    /\ UNCHANGED state
    /\ SessionFrame

\* the deferred function of Process: close(s.done)
ProcessDeferredDone(i) ==
    /\ Task(i, "closeDone")
    /\ SessionStep(i, [sessions[i] EXCEPT !.task = "returned", !.done = @ + 1])
    /\ UNCHANGED state
    /\ SessionFrame

\* processBuildCommandMessage, after Process has returned
processBuildCommandMessageIdle(i) ==
    /\ Task(i, "returned")
    /\ state' = [state EXCEPT !.runtimeStatus = "Idle"]
    /\ sessions' = [sessions EXCEPT ![i].task = "finished"]
    /\ UNCHANGED crashed
    /\ SessionFrame

\* ------------------------------------------------------------------------
\* The dispatcher: StartAgent, doStartAgent, processMessage
\* ------------------------------------------------------------------------

\* the dispatcher task is in the select of doStartAgent's loop
InLoop ==
    /\ ~crashed
    /\ disp.pc = "loop"

\* conn.Received delivers a message
Receive ==
    /\ InLoop
    /\ received < MaxMsgs
    /\ received' = received + 1

Looping ==
    [pc |-> "loop", after |-> "", job |-> <<>>]

\* what follows closeBuildSession at its three call sites: the rest of
\* case "cmd", the return of case "cancelJob", the return of doStartAgent
AfterClose(after, job) ==
    CASE after = "cmd" ->
            /\ sessions' = Append(sessions, MakeBuildSession(job))
            /\ buildSession' = Len(sessions) + 1
            /\ disp' = Looping
      [] after = "cancelJob" ->
            /\ sessions' = sessions
            /\ buildSession' = 0
            /\ disp' = Looping
      [] OTHER ->
            /\ sessions' = sessions
            /\ buildSession' = 0
            /\ disp' = [Looping EXCEPT !.pc = "stopped"]

\* a Close that waits for the session without cancelling it
CloseCancel_NoCancel(s) ==
    s

\* BuildSession.Close: close(s.cancel); closing a closed channel panics
CloseCancel(s) ==
    [s EXCEPT !.cancel = TRUE]

\* BuildSession.Close of package libgogoagent, the one StartAgent's package
\* defines: s.CancelChannel <- 0.  The deferred function of its Process
\* closes CancelChannel before DoneChannel, so once done is raised the send
\* is a send on a closed channel
SendsOnClosedCancel(s) ==
    s.done > 0

\* closeBuildSession, to the receive from s.done inside BuildSession.Close.
\* The source holds two BuildSession.Close; which one the call reaches is
\* the build's choice, and both outcomes are steps of the model
closeBuildSession(after, job) ==
    IF buildSession = 0
    THEN AfterClose(after, job) /\ UNCHANGED crashed
    ELSE IF sessions[buildSession].cancel
    THEN crashed' = TRUE /\ UNCHANGED <<sessions, buildSession, disp>>
    ELSE \/ /\ sessions' = [sessions EXCEPT ![buildSession] = CloseCancel(@)]
            /\ disp' = [pc |-> "closing", after |-> after, job |-> job]
            /\ UNCHANGED <<buildSession, crashed>>
         \/ /\ SendsOnClosedCancel(sessions[buildSession])
            /\ crashed' = TRUE
            /\ UNCHANGED <<sessions, buildSession, disp>>

\* a receive that proceeds without the channel being closed
DoneRaised_Unawaited(s) ==
    TRUE

\* the receive <-s.done can proceed: the channel is closed
DoneRaised(s) ==
    s.done > 0

\* BuildSession.Close: <-s.done; then the rest of closeBuildSession and of
\* its caller
Close ==
    /\ ~crashed
    /\ disp.pc = "closing"
    /\ DoneRaised(sessions[buildSession])
    /\ AfterClose(disp.after, disp.job)
    /\ UNCHANGED <<state, wire, received, restarts, crashed>>

\* processMessage, case "setCookie"
setCookie ==
    /\ Receive
    /\ state' = [state EXCEPT !.cookie = "cookie"]
    /\ UNCHANGED <<sessions, buildSession, disp, wire, restarts, crashed>>

\* processMessage, case "cancelJob"
cancelJob ==
    /\ Receive
    /\ closeBuildSession("cancelJob", <<>>)
    /\ UNCHANGED <<state, wire, restarts>>

\* processMessage, case "reregister": the error ends doStartAgent, whose
\* deferred closeBuildSession runs
reregister ==
    /\ Receive
    /\ closeBuildSession("exit", <<>>)
    /\ UNCHANGED <<state, wire, restarts>>

\* processMessage, case "cmd"
cmd(job) ==
    /\ Receive
    /\ closeBuildSession("cmd", job)
    /\ UNCHANGED <<state, wire, restarts>>

\* processMessage, default case
unknownAction ==
    /\ Receive
    /\ UNCHANGED <<sessions, buildSession, disp, state, wire, restarts, crashed>>

\* doStartAgent: conn.Received is closed
connectionClosed ==
    /\ InLoop
    /\ received < MaxMsgs
    /\ closeBuildSession("exit", <<>>)
    /\ UNCHANGED <<state, wire, received, restarts>>

\* doStartAgent takes a heartbeat of ping from the outbound channel;
\* conn.Send succeeds or fails
pingSent(ok) ==
    /\ InLoop
    /\ IF ok
       THEN UNCHANGED <<sessions, buildSession, disp, crashed>>
       ELSE closeBuildSession("exit", <<>>)
    /\ UNCHANGED <<state, wire, received, restarts>>

\* doStartAgent takes the report a session is sending from the outbound
\* channel: the session's send returns; conn.Send succeeds or fails
reportSent(i, ok) ==
    /\ InLoop
    /\ At(i, "send")
    /\ LET s == Return(sessions[i], NoErr)
       IN IF ok
          THEN /\ sessions' = [sessions EXCEPT ![i] = s]
               /\ wire' = Append(wire, Top(sessions[i]).msg[1])
               /\ UNCHANGED <<buildSession, disp, crashed>>
          ELSE /\ wire' = wire
               /\ IF buildSession = 0
                  THEN /\ sessions' = [sessions EXCEPT ![i] = s]
                       /\ disp' = [Looping EXCEPT !.pc = "stopped"]
                       /\ UNCHANGED <<buildSession, crashed>>
                  ELSE /\ sessions' = [[sessions EXCEPT ![i] = s] EXCEPT
                                            ![buildSession] = CloseCancel(@)]
                       /\ disp' = [pc |-> "closing", after |-> "exit", job |-> <<>>]
                       /\ UNCHANGED <<buildSession, crashed>>
    /\ UNCHANGED <<state, received, restarts>>

\* StartAgent: after doStartAgent returned, it is called again; Register and
\* the connection succeed or fail
StartAgent(ok) ==
    /\ ~crashed
    /\ disp.pc = "stopped"
    /\ restarts < MaxRestarts
    /\ restarts' = restarts + 1
    /\ disp' = IF ok THEN Looping ELSE disp
    /\ UNCHANGED <<sessions, buildSession, state, wire, received, crashed>>

\* ------------------------------------------------------------------------
\* The specification
\* ------------------------------------------------------------------------

\* the session task of session i
SessionNext(i) ==
    \/ processBuildCommandMessage(i)
    \/ processCheck(i)
    \/ processGuard(i)
    \/ processStart(i)
    \/ processCompose(i)
    \/ processComposeNext(i)
    \/ processExport(i)
    \/ processTest(i)
    \/ processEcho(i)
    \/ processUploadArtifact(i)
    \/ processReport(i)
    \/ processEnd(i)
    \/ processDefault(i)
    \/ processExec(i)
    \/ processExecCancel(i)
    \/ processExecDone(i)
    \/ Process(i)
    \/ ProcessDeferredClose(i)
    \/ ProcessDeferredDone(i)
    \/ processBuildCommandMessageIdle(i)

\* the child-wait tasks of session i
ChildNext(i) ==
    \E k \in 1..2 :
        \/ childStart(i, k)
        \/ childOutput(i, k)
        \/ childExit(i, k)
        \/ childReap(i, k)

\* the messages of the server and the state of the connection
ServerNext ==
    \/ setCookie
    \/ cancelJob
    \/ reregister
    \/ \E job \in Jobs : cmd(job)
    \/ unknownAction
    \/ connectionClosed

\* the steps of the dispatcher task that wait for nothing but other tasks
DispatcherNext ==
    \/ Close
    \/ \E ok \in BOOLEAN : pingSent(ok)
    \/ \E i \in 1..MaxMsgs, ok \in BOOLEAN : reportSent(i, ok)
    \/ \E ok \in BOOLEAN : StartAgent(ok)

Next ==
    \/ \E i \in 1..MaxMsgs : SessionNext(i)
    \/ \E i \in 1..MaxMsgs : ChildNext(i)
    \/ ServerNext
    \/ DispatcherNext

Spec ==
    Init /\ [][Next]_vars

\* the Go scheduler runs every runnable goroutine: each session task, each
\* child-wait task and the dispatcher take the steps they can take
FairSpec ==
    /\ Spec
    /\ \A i \in 1..MaxMsgs :
            /\ WF_vars(SessionNext(i))
            /\ WF_vars(ChildNext(i))
            /\ WF_vars(\E ok \in BOOLEAN : reportSent(i, ok))
    /\ WF_vars(Close)

\* ------------------------------------------------------------------------
\* Properties
\* ------------------------------------------------------------------------

\* the session task is between the first statement of Process and the end
\* of its deferred function
InProcess(s) ==
    s.task \in {"process", "deferred", "closeDone"}

\* the session task of s takes the step from sessions to sessions'
Steps(i) ==
    sessions'[i].stack # sessions[i].stack

\* err is the error of the cancel branch of processExec
IsCanceledError(err) ==
    /\ err # NoErr
    /\ err[Len(err)] = "is canceled"

\* the job is a compose whose first child is a start
StartsWithStart(job) ==
    /\ job.name = "compose"
    /\ job.subCommands # <<>>
    /\ job.subCommands[1].name = "start"

\* C1: cancellation never marks a session failed: once the cancel signal is
\* raised while buildStatus is "passed", handling the error of the cancelled
\* exec leaves buildStatus "passed", up to the moment done is raised.  (A
\* command that fails by itself after the signal is not held against the
\* claim.)
C1_CancellationNeverFails ==
    [][\A i \in 1..Len(sessions) :
          (/\ sessions[i].cancel
           /\ sessions[i].done = 0
           /\ sessions[i].buildStatus = "passed"
           /\ sessions[i].ret.set
           /\ IsCanceledError(sessions[i].ret.err))
          => sessions'[i].buildStatus = "passed"]_vars

\* C2: buildStatus is monotonic in every session: its values form a prefix
\* of unset, passed, failed; once "failed" it never is "passed" or unset
\* again, once "passed" it never is unset again.
C2_BuildStatusMonotonic ==
    [][\A i \in 1..Len(sessions) :
          /\ sessions[i].buildStatus = "failed"
                => sessions'[i].buildStatus = "failed"
          /\ sessions[i].buildStatus = "passed"
                => sessions'[i].buildStatus \in {"passed", "failed"}]_vars

\* C3: every invocation of Process raises done exactly once on every exit
\* path: never twice, and once Process has ended (it returned, or the task
\* died in it) done has been raised.  Stated for the jobs that begin with a
\* start command.
C3_DoneExactlyOnce ==
    \A i \in 1..Len(sessions) :
        StartsWithStart(sessions[i].job) =>
            /\ sessions[i].done <= 1
            /\ (sessions[i].task \in {"returned", "finished"} \/ sessions[i].panicked)
                    => sessions[i].done = 1

\* C4: the console of a session is closed exactly once, before done is
\* raised, and nothing is written to it after it has been closed.
C4_ConsoleClosedOnceBeforeDone ==
    \A i \in 1..Len(sessions) :
        /\ sessions[i].console.closed <= 1
        /\ sessions[i].done > 0 => sessions[i].console.closed = 1
        /\ ~sessions[i].console.late

\* C5: Close always eventually returns: whenever the dispatcher, handling a
\* cancelJob or a cmd message, is waiting in Close for the session in flight,
\* then under fair scheduling it later is no longer waiting there: the
\* session has raised done and the dispatcher has resumed (or the agent
\* process has died).
C5_CloseReturns ==
    []((disp.pc = "closing" /\ disp.after \in {"cancelJob", "cmd"})
            => <>(disp.pc # "closing" \/ crashed))

\* C6: after the cancel signal is raised no command has a side effect: a
\* dispatch step (the switch of process) taken after the signal writes no
\* console line, changes neither envs nor buildStatus, starts no child-wait
\* task, uploads nothing and begins no send of a report.
C6_NoSideEffectAfterCancel ==
    [][\A i \in 1..Len(sessions) :
          (/\ sessions[i].cancel
           /\ sessions[i].task = "process"
           /\ sessions[i].stack # <<>>
           /\ Top(sessions[i]).pc = "dispatch"
           /\ Steps(i))
          => /\ sessions'[i].console = sessions[i].console
             /\ sessions'[i].envs = sessions[i].envs
             /\ sessions'[i].buildStatus = sessions[i].buildStatus
             /\ sessions'[i].kids = sessions[i].kids
             /\ sessions'[i].uploads = sessions[i].uploads
             /\ \A n \in 1..Len(sessions'[i].stack) :
                    sessions'[i].stack[n].pc # "send"]_vars

\* C7: the dispatcher runs at most one session interpreter at a time: the
\* Process call of a session begins only after every earlier session has
\* raised done, so no two sessions are both inside Process with done not
\* yet raised.
C7_OneInterpreterAtATime ==
    /\ \A i, j \in 1..Len(sessions) :
            (i < j /\ sessions[j].task # "spawned") => sessions[i].done > 0
    /\ Cardinality({i \in 1..Len(sessions) :
            InProcess(sessions[i]) /\ sessions[i].done = 0}) <= 1

\* C7, its case: a second session is inside Process, its interpreter at
\* work, after the first session was closed by the dispatcher
C7_Witness ==
    \E i, j \in 1..Len(sessions) :
        /\ i < j
        /\ sessions[i].cancel
        /\ sessions[i].done = 1
        /\ sessions[j].task = "process"
        /\ Len(sessions[j].stack) > 1

\* C8: runtimeStatus is "Building" in every state in which some session is
\* inside Process.
C8_BuildingWhileInProcess ==
    (\E i \in 1..Len(sessions) : InProcess(sessions[i]))
        => state.runtimeStatus = "Building"

\* activation n of session record s is a processCompose in its loop
InCompose(s, n) ==
    /\ n \in 1..Len(s.stack)
    /\ s.stack[n].pc = "compose"

C10_ComposeReturnsLastFailure ==
    \A i \in 1..Len(sessions) :
        (/\ sessions[i].ret.set
         /\ sessions[i].ret.from[1].cmd.name = "compose"
         /\ sessions[i].ret.from[1].pc \in {"dispatch", "compose"})
            => sessions[i].ret.err = sessions[i].ret.from[1].lastFail

\* the session task of i is about to call fail(err) with a non-nil error:
\* in processCompose after child's process returned, or in Process
CallsFail(s) ==
    /\ s.task = "process"
    /\ ~s.panicked
    /\ s.ret.set
    /\ s.ret.err # NoErr
    /\ \/ s.stack = <<>>
       \/ Top(s).pc = "compose"

\* fail was called before in the session: by the compose activation on top
\* for an earlier child, or by the compose whose error Process holds
FailedBefore(s) ==
    IF s.stack = <<>>
    THEN s.ret.from[1].pc = "compose"
    ELSE Top(s).lastFail # NoErr

\* C11: fail is idempotent within a session: a call of fail that is not the
\* first of the session (a later failing child of the same compose, or the
\* final call in Process for the error a compose returned) writes nothing to
\* the console and leaves buildStatus as it is.
C11_FailIdempotent ==
    [][\A i \in 1..Len(sessions) :
          (/\ CallsFail(sessions[i])
           /\ FailedBefore(sessions[i])
           /\ \/ Steps(i)
              \/ sessions'[i].task = "deferred")
          => /\ sessions'[i].console = sessions[i].console
             /\ sessions'[i].buildStatus = sessions[i].buildStatus]_vars

\* C12: a dispatched report command sends one Report named after the
\* command whose result is 'Passed' or 'Failed', and is 'Failed' when a
\* command error was recorded in the session before the report was
\* dispatched (a compose activation that encloses the report has had a
\* failing child).
C12_ReportResult ==
    /\ \A n \in 1..Len(wire) : wire[n].result \in {"Passed", "Failed"}
    /\ \A i \in 1..Len(sessions) : \A n \in 1..Len(sessions[i].stack) :
            LET f == sessions[i].stack[n]
            IN f.pc = "send" =>
                /\ Len(f.msg) = 1
                /\ f.msg[1].action = f.cmd.name
                /\ f.msg[1].result \in {"Passed", "Failed"}
                /\ (\E m \in 1..(n - 1) : sessions[i].stack[m].lastFail # NoErr)
                        => f.msg[1].result = "Failed"

\* C13: command errors propagate to a failed session: when done is raised
\* and a command of the job returned an error that was not the result of a
\* guard (the job's outermost compose had a failing child, or process
\* returned an error to Process), buildStatus is 'failed'.
C13_ErrorsFailTheSession ==
    \A i \in 1..Len(sessions) :
        (/\ sessions[i].done > 0
         /\ sessions[i].ret.set
         /\ \/ sessions[i].ret.err # NoErr
            \/ sessions[i].ret.from[1].lastFail # NoErr)
        => sessions[i].buildStatus = "failed"

\* C14: no command other than start executes its switch case before start
\* has run, and start runs at most once in a session.  (compose, which only
\* holds the commands of the job, and end, which does nothing, are left out
\* of the first part.)
C14_StartFirstAndOnce ==
    \A i \in 1..Len(sessions) :
        /\ sessions[i].starts <= 1
        /\ (/\ sessions[i].task = "process"
            /\ sessions[i].stack # <<>>
            /\ Top(sessions[i]).pc = "dispatch"
            /\ Top(sessions[i]).cmd.name \notin {"start", "compose", "end"})
                => sessions[i].starts >= 1

\* C15: done is raised only after every subprocess the session spawned has
\* terminated and been reaped and every child-wait task of its execs has
\* finished.  Stated for the sessions whose Process returns; one that
\* panics is left out.
C15_NoChildOutstandingAtDone ==
    \A i \in 1..Len(sessions) :
        (sessions[i].done > 0 /\ ~sessions[i].panicked) =>
            \A k \in 1..Len(sessions[i].kids) : sessions[i].kids[k].st = "finished"

\* the session task of i is at the case of an uploadArtifact command whose
\* source holds no wildcard, with its console bound
UploadsPlainSource(s) ==
    /\ s.task = "process"
    /\ s.stack # <<>>
    /\ Top(s).pc = "dispatch"
    /\ Top(s).cmd.name = "uploadArtifact"
    /\ ~HasWildcard(Top(s).cmd.args.src)
    /\ s.console.bound

C17_CancelJobDropsSession ==
    [][/\ cancelJob =>
            /\ ~crashed'
            /\ buildSession = 0 =>
                    /\ buildSession' = 0
                    /\ sessions' = sessions
                    /\ disp' = disp
       /\ (Close /\ disp.after = "cancelJob") =>
            /\ buildSession' = 0
            /\ disp'.pc = "loop"
            /\ sessions[buildSession].done > 0]_vars

\* what a command can change of its session: the console, envs, buildStatus,
\* the child-wait tasks, the uploads, a send in progress
SameSession(s, t) ==
    /\ t.console = s.console
    /\ t.envs = s.envs
    /\ t.buildStatus = s.buildStatus
    /\ t.kids = s.kids
    /\ t.uploads = s.uploads
    /\ \A n \in 1..Len(t.stack) : t.stack[n].pc # "send"

\* C18: a command processed while buildStatus is set ('passed' or 'failed')
\* whose runIfConfig is not 'any' and differs from buildStatus returns nil
\* with no side effects: its guard is not evaluated, its body is not
\* dispatched, and the console, envs, buildStatus and the outbound channel
\* are left as they were.
C18_RunIfSkip ==
    [][\A i \in 1..Len(sessions) :
        LET s == sessions[i]
            t == sessions'[i]
        IN (/\ s.task = "process"
            /\ s.stack # <<>>
            /\ Top(s).pc = "check"
            /\ s.buildStatus \in {"passed", "failed"}
            /\ Top(s).cmd.runIfConfig # "any"
            /\ Top(s).cmd.runIfConfig # s.buildStatus
            /\ Steps(i))
           => /\ t.stack = SubSeq(s.stack, 1, Len(s.stack) - 1)
              /\ t.ret.set
              /\ t.ret.err = NoErr
              /\ SameSession(s, t)
              /\ wire' = wire]_vars

\* C18, its case: a command that has a guard was skipped, without a cancel,
\* because its runIfConfig is 'passed' and the build had failed
C18_Witness ==
    \E i \in 1..Len(sessions) :
        LET s == sessions[i]
        IN /\ ~s.cancel
           /\ s.buildStatus = "failed"
           /\ s.ret.set
           /\ s.ret.from[1].pc = "check"
           /\ s.ret.from[1].cmd.runIfConfig = "passed"
           /\ s.ret.from[1].cmd.test # <<>>

\* C19: for a command with a guard the body is dispatched if and only if
\* (the guard's process returned no error) equals the guard's expectation;
\* when the guard is unsatisfied the command returns nil, its body has no
\* effect and the guard's error is not returned.
C19_GuardDecidesBody ==
    [][\A i \in 1..Len(sessions) :
        LET s == sessions[i]
            t == sessions'[i]
        IN /\ (/\ s.task = "process"
               /\ s.stack # <<>>
               /\ Top(s).pc = "guard"
               /\ s.ret.set
               /\ Steps(i))
              => IF (s.ret.err = NoErr) = Top(s).cmd.test[1].expectation
                 THEN /\ Len(t.stack) = Len(s.stack)
                      /\ Top(t).pc = "dispatch"
                      /\ Top(t).cmd = Top(s).cmd
                      /\ ~t.ret.set
                 ELSE /\ t.stack = SubSeq(s.stack, 1, Len(s.stack) - 1)
                      /\ t.ret.set
                      /\ t.ret.err = NoErr
                      /\ SameSession(s, t)
           /\ \A n \in 1..Len(t.stack) :
                (/\ t.stack[n].pc = "dispatch"
                 /\ t.stack[n].cmd.test # <<>>
                 /\ (n > Len(s.stack) \/ s.stack[n].pc # "dispatch"))
                => /\ n = Len(s.stack)
                   /\ s.stack[n].pc = "guard"
                   /\ s.ret.set
                   /\ (s.ret.err = NoErr) = s.stack[n].cmd.test[1].expectation]_vars

\* C19, its case: the body of a command whose guard failed as expected has
\* run, and a command whose guard failed against its expectation has
\* returned from the guard
C19_Witness ==
    \E i \in 1..Len(sessions) :
        LET s == sessions[i]
        IN /\ \E n \in 1..Len(s.console.lines) : s.console.lines[n] = <<"guarded">>
           /\ s.ret.set
           /\ s.ret.err = NoErr
           /\ s.ret.from[1].pc = "guard"
           /\ s.ret.from[1].cmd.test[1].expectation

\* C20: an export with empty args writes one line 'export KEY=VALUE' per
\* binding of envs, in lexicographic order of KEY, and leaves envs as it is;
\* an export with args overlays them on envs and writes nothing.
C20_ExportSortedByKey ==
    [][\A i \in 1..Len(sessions) :
        LET s == sessions[i]
            t == sessions'[i]
        IN (/\ s.task = "process"
            /\ s.stack # <<>>
            /\ Top(s).pc = "dispatch"
            /\ Top(s).cmd.name = "export"
            /\ s.console.bound
            /\ Steps(i))
           => IF DOMAIN Top(s).cmd.args = {}
              THEN LET old == Len(s.console.lines)
                       new == SubSeq(t.console.lines, old + 1, Len(t.console.lines))
                   IN /\ t.envs = s.envs
                      /\ SubSeq(t.console.lines, 1, old) = s.console.lines
                      /\ Len(new) = Cardinality(DOMAIN s.envs)
                      /\ \A k \in DOMAIN s.envs :
                            \E p \in 1..Len(new) : new[p] = <<"export", k, s.envs[k]>>
                      /\ \A p, q \in 1..Len(new) :
                            p < q => StringLess(Chars(new[p][2]), Chars(new[q][2]))
              ELSE /\ t.console = s.console
                   /\ DOMAIN t.envs = DOMAIN s.envs \cup DOMAIN Top(s).cmd.args
                   /\ \A k \in DOMAIN t.envs :
                        t.envs[k] = IF k \in DOMAIN Top(s).cmd.args
                                    THEN Top(s).cmd.args[k] ELSE s.envs[k]]_vars

\* C21: whenever the cancel branch of exec calls Kill, the child-wait task
\* has already launched the subprocess (its process handle exists), for
\* every interleaving of the cancel signal with the start of that task.
C21_KillHasProcess ==
    [][\A i \in 1..Len(sessions) :
        LET s == sessions[i]
        IN (/\ s.task = "process"
            /\ s.stack # <<>>
            /\ Top(s).pc = "select"
            /\ s.cancel
            /\ sessions'[i].kids = s.kids
            /\ sessions'[i] # s)
           => s.kids[Len(s.kids)].st # "spawned"]_vars


\* C22: when the dispatcher loop of a connection has exited (send failure,
\* websocket closed, reregister) and doStartAgent has returned, so that
\* registration can be retried, the session reference is cleared and every
\* session the agent made is cancelled and has raised its done signal.
C22_NoSessionSurvivesExit ==
    disp.pc = "stopped" =>
        /\ buildSession = 0
        /\ \A i \in 1..Len(sessions) :
              sessions[i].cancel /\ sessions[i].done > 0

\* the loop exited while it held the only session: one message (the cmd)
\* was received, so the exit was a send failure or the websocket closing
C22_Witness ==
    /\ disp.pc = "stopped"
    /\ received = 1
    /\ Len(sessions) = 1
    /\ sessions[1].cancel
    /\ sessions[1].done > 0

=============================================================================
